---- MODULE Spec2Model ----
(***************************************************************************)
(* State-machine model of src/app.py: the Streamlit handler of main that   *)
(* runs AIWebSearchAgent.process_data over an uploaded table, row by row   *)
(* (render query, report progress, search_web, extract_info_with_llm,      *)
(* store the record, sleep), then display_results and the exports.         *)
(***************************************************************************)
EXTENDS Integers, Sequences, FiniteSets, TLC

VARIABLES pc, rows, template, idx, total_rows, entity, search_query,
          progress_log, response, hits, search_results, completion,
          extracted_info, results, clock, n_search, n_completion,
          summary_data, st_error

vars == <<pc, rows, template, idx, total_rows, entity, search_query,
          progress_log, response, hits, search_results, completion,
          extracted_info, results, clock, n_search, n_completion,
          summary_data, st_error>>

(* ------------------------------ bounds -------------------------------- *)
MaxRows == 2
MaxContainers == 4

(* ------------------------- program constants -------------------------- *)
NumResults == 3
SleepSeconds == 2

(* ------------------------ Python values (tagged) ---------------------- *)
PyNone == [py |-> "None"]
PyStr(s) == [py |-> "str", v |-> s]
PyNaN == [py |-> "float", v |-> "nan"]
PyList(l) == [py |-> "list", v |-> l]
PyDict(d) == [py |-> "dict", v |-> d]

\* str(x) for the values a table cell can hold
py_str(x) == x.v

Min(a, b) == IF a < b THEN a ELSE b
Last(s) == s[Len(s)]

(* ------------------------------ inputs -------------------------------- *)
\* cells of the query column of pd.read_csv: strings, and NaN for an empty cell
Entities == {PyStr("Acme"), PyNaN}

RowSeqs == UNION {[1..n -> Entities] : n \in 0..MaxRows}

Lit(s) == [kind |-> "lit", text |-> s, name |-> "", spec |-> ""]
Field(n, sp) == [kind |-> "field", text |-> "", name |-> n, spec |-> sp]
Brace == [kind |-> "brace", text |-> "{", name |-> "", spec |-> ""]

\* "News about {entity}"
TplNews == <<Lit("News about "), Field("entity", "")>>
\* "News about" : no placeholder
TplNoPlaceholder == <<Lit("News about")>>
\* "News about {name}" : another placeholder
TplOtherName == <<Lit("News about "), Field("name", "")>>
\* "Price of {entity:f}" : the placeholder with a float format spec
TplFloatSpec == <<Lit("Price of "), Field("entity", "f")>>
\* "News about {" : a single unmatched brace
TplStrayBrace == <<Lit("News about "), Brace>>

Templates == {TplNews, TplNoPlaceholder, TplOtherName, TplFloatSpec, TplStrayBrace}

(* ------------------- str.format (process_data line 100) --------------- *)
\* In the records below exc is str(e) of the exception raised, "" when none is.

\* format(value, spec): "" is str(value); "f" formats a float and rejects a str
format_field(value, spec) ==
    IF spec = "" THEN [exc |-> "", value |-> py_str(value)]
    ELSE IF value.py = "float" THEN [exc |-> "", value |-> "nan"]
    ELSE [exc |-> "Unknown format code 'f' for object of type 'str'", value |-> ""]

\* the pieces are consumed left to right; the first piece that fails raises
RECURSIVE format_pieces(_, _, _)
format_pieces(pieces, kwargs, acc) ==
    IF pieces = <<>> THEN [exc |-> "", value |-> acc]
    ELSE LET p == Head(pieces) IN
         CASE p.kind = "lit" -> format_pieces(Tail(pieces), kwargs, acc \o p.text)
           [] p.kind = "brace" ->
                [exc |-> "Single '{' encountered in format string", value |-> ""]
           [] p.kind = "field" ->
                IF p.name \notin DOMAIN kwargs
                THEN [exc |-> "'" \o p.name \o "'", value |-> ""]
                ELSE LET f == format_field(kwargs[p.name], p.spec) IN
                     IF f.exc # "" THEN f
                     ELSE format_pieces(Tail(pieces), kwargs, acc \o f.value)

\* template.format(entity=entity)
str_format(tpl, ent) == format_pieces(tpl, [entity |-> ent], "")

(* ---------------------- search_web (lines 22-40) ---------------------- *)
\* a .result__body container; select_one gives <<text>> or <<>> (None)
Shapes == {"both", "no_title", "no_snippet"}

Container(k, shape) ==
    [title |-> IF shape = "no_title" THEN <<>> ELSE <<"T" \o ToString(k)>>,
     snippet |-> IF shape = "no_snippet" THEN <<>> ELSE <<"S" \o ToString(k)>>]

\* the pages requests.get can return, as soup.select('.result__body')
Pages == UNION {{[k \in 1..n |-> Container(k, f[k])] : f \in [1..n -> Shapes]}
                  : n \in 0..MaxContainers}

SearchErrors == {"Connection refused"}

Responses == {[status |-> "ok", exc |-> "", containers |-> c] : c \in Pages}
             \cup {[status |-> "raised", exc |-> e, containers |-> <<>>] : e \in SearchErrors}

NoResponse == [status |-> "none", exc |-> "", containers |-> <<>>]

\* line 36
format_hit(c) == "Title: " \o c.title[1] \o "\nSnippet: " \o c.snippet[1] \o "\n"

\* lines 31-36: slice the containers first, then keep the complete ones
RECURSIVE collect_hits(_)
collect_hits(cs) ==
    IF cs = <<>> THEN <<>>
    ELSE IF Head(cs).title # <<>> /\ Head(cs).snippet # <<>>
         THEN <<format_hit(Head(cs))>> \o collect_hits(Tail(cs))
         ELSE collect_hits(Tail(cs))

extract_hits(containers, num_results) ==
    collect_hits(SubSeq(containers, 1, Min(num_results, Len(containers))))

\* '\n'.join(results)
RECURSIVE join_lines(_)
join_lines(ss) ==
    IF ss = <<>> THEN ""
    ELSE IF Len(ss) = 1 THEN ss[1]
    ELSE ss[1] \o "\n" \o join_lines(Tail(ss))

\* the value search_web returns for a response (lines 38 and 40)
search_web_text(resp) ==
    IF resp.status = "raised" THEN "Search error: " \o resp.exc
    ELSE join_lines(extract_hits(resp.containers, NumResults))

(* ---------------- extract_info_with_llm (lines 42-84) ----------------- *)
FullJSON == "{\"extracted_info\": \"found\", \"key_points\": [\"p\"], \"source_quality\": \"high\", \"confidence\": \"medium\", \"additional_notes\": \"\"}"
PartialJSON == "{\"extracted_info\": \"found\"}"
ArrayJSON == "[\"found\"]"
ErrorKeyJSON == "{\"error\": \"no data\", \"confidence\": \"low\"}"
ProseText == "Sure! Here is the JSON you asked for"

\* json.loads on the texts the completion endpoint can answer with
json_loads(text) ==
    CASE text = FullJSON ->
           [exc |-> "", value |-> PyDict([extracted_info |-> PyStr("found"),
                                          key_points |-> PyList(<<PyStr("p")>>),
                                          source_quality |-> PyStr("high"),
                                          confidence |-> PyStr("medium"),
                                          additional_notes |-> PyStr("")])]
      [] text = PartialJSON ->
           [exc |-> "", value |-> PyDict([extracted_info |-> PyStr("found")])]
      [] text = ArrayJSON ->
           [exc |-> "", value |-> PyList(<<PyStr("found")>>)]
      [] text = ErrorKeyJSON ->
           [exc |-> "", value |-> PyDict([error |-> PyStr("no data"),
                                          confidence |-> PyStr("low")])]
      [] OTHER -> [exc |-> "Expecting value: line 1 column 1 (char 0)", value |-> PyNone]

CompletionErrors == {"Connection error.", "Rate limit reached"}

Completions ==
    {[status |-> "ok", exc |-> "", content |-> t] :
        t \in {FullJSON, PartialJSON, ArrayJSON, ErrorKeyJSON, ProseText}}
    \cup {[status |-> "raised", exc |-> e, content |-> ""] : e \in CompletionErrors}

NoCompletion == [status |-> "none", exc |-> "", content |-> ""]

\* lines 77-84
Sentinel(e) ==
    PyDict([error |-> PyStr("LLM processing error: " \o e),
            extracted_info |-> PyNone,
            key_points |-> PyList(<<>>),
            source_quality |-> PyStr("error"),
            confidence |-> PyStr("none"),
            additional_notes |-> PyStr("Failed to process with LLM")])

\* variant: the handler returns only the error message, without the other
\* sentinel fields
extract_info_error_only(c) ==
    IF c.status = "raised" THEN PyDict([error |-> PyStr("LLM processing error: " \o c.exc)])
    ELSE LET j == json_loads(c.content) IN
         IF j.exc # "" THEN PyDict([error |-> PyStr("LLM processing error: " \o j.exc)])
         ELSE j.value

\* lines 65-84: the value returned for an outcome of the completion call
extract_info_with_llm(c) ==
    IF c.status = "raised" THEN Sentinel(c.exc)
    ELSE LET j == json_loads(c.content) IN
         IF j.exc # "" THEN Sentinel(j.exc) ELSE j.value

(* ------------------- records of process_data -------------------------- *)
\* time.strftime("%Y-%m-%d %H:%M:%S") at second t of the run
strftime(t) == "1970-01-01 00:00:0" \o ToString(t)

\* lines 115-120
SuccessRecord(ent, q, info, t) ==
    [entity |-> ent, search_query |-> q, analysis |-> info, timestamp |-> strftime(t)]

\* lines 123-127
ErrorRecord(ent, e, t) ==
    [entity |-> ent, error |-> e, timestamp |-> strftime(t)]

\* variant: the report counts the rows before the current one
ProgressReport_completed(i, total) == [done |-> i, total |-> total]

\* lines 103-105: what the observer is shown for the row at index i
ProgressReport(i, total) == [done |-> i + 1, total |-> total]

(* ---------------------- display_results (136-164) --------------------- *)
\* d.get(key, default) on a dict
dict_get(d, key, default) == IF key \in DOMAIN d.v THEN d.v[key] ELSE default

\* lines 150-155
SummaryRow(r) ==
    [Entity |-> r.entity,
     MainFindings |-> dict_get(r.analysis, "extracted_info", PyStr("N/A")),
     Confidence |-> dict_get(r.analysis, "confidence", PyStr("N/A")),
     SourceQuality |-> dict_get(r.analysis, "source_quality", PyStr("N/A"))]

\* lines 147-155: only the records with an "analysis" key give a row
RECURSIVE summary_rows(_)
summary_rows(rs) ==
    IF rs = <<>> THEN <<>>
    ELSE IF "analysis" \in DOMAIN Head(rs)
         THEN <<SummaryRow(Head(rs))>> \o summary_rows(Tail(rs))
         ELSE summary_rows(Tail(rs))

\* line 152: .get on an analysis that is not a dict raises AttributeError
summary_raises(rs) ==
    \E i \in 1..Len(rs) : "analysis" \in DOMAIN rs[i] /\ rs[i].analysis.py # "dict"


(* ------------------------------ state --------------------------------- *)
\* Exceptions that can reach the handler of line 122: search_web and
\* extract_info_with_llm catch their own, so only a fault raised while the
\* record is built and appended (lines 115-120) arrives there.
StoreFaults == {[type |-> "MemoryError", msg |-> ""]}

\* main, lines 186-204: a table is uploaded and a template entered
Init ==
    /\ rows \in RowSeqs
    /\ template \in Templates
    /\ pc = "button"
    /\ idx = 0
    /\ total_rows = 0
    /\ entity = PyNone
    /\ search_query = ""
    /\ progress_log = <<>>
    /\ response = NoResponse
    /\ hits = <<>>
    /\ search_results = ""
    /\ completion = NoCompletion
    /\ extracted_info = PyNone
    /\ results = <<>>
    /\ clock = 0
    /\ n_search = 0
    /\ n_completion = 0
    /\ summary_data = <<>>
    /\ st_error = ""

\* main lines 204-207 and process_data lines 90-96
StartAnalysis ==
    /\ pc = "button"
    /\ results' = <<>>
    /\ total_rows' = Len(rows)
    /\ pc' = "for"
    /\ UNCHANGED <<rows, template, idx, entity, search_query, progress_log,
                   response, hits, search_results, completion, extracted_info,
                   clock, n_search, n_completion, summary_data, st_error>>

\* lines 98-100: take the next row and render its query; a failing format
\* leaves process_data and is caught by main (lines 230-231)
RenderQuery ==
    /\ pc = "for"
    /\ idx < Len(rows)
    /\ LET ent == rows[idx + 1]
           q == str_format(template, ent)
       IN /\ entity' = ent
          /\ IF q.exc = ""
             THEN /\ search_query' = q.value
                  /\ pc' = "progress"
                  /\ st_error' = st_error
             ELSE /\ search_query' = search_query
                  /\ pc' = "error"
                  /\ st_error' = "An error occurred: " \o q.exc
    /\ UNCHANGED <<rows, template, idx, total_rows, progress_log, response, hits,
                   search_results, completion, extracted_info, results, clock,
                   n_search, n_completion, summary_data>>

\* lines 102-105
UpdateProgress ==
    /\ pc = "progress"
    /\ progress_log' = Append(progress_log, ProgressReport(idx, total_rows))
    /\ pc' = "search"
    /\ UNCHANGED <<rows, template, idx, total_rows, entity, search_query, response,
                   hits, search_results, completion, extracted_info, results, clock,
                   n_search, n_completion, summary_data, st_error>>

\* line 109 with search_web, lines 22-40
SearchWeb ==
    /\ pc = "search"
    /\ \E resp \in Responses :
          /\ response' = resp
          /\ hits' = IF resp.status = "ok"
                     THEN extract_hits(resp.containers, NumResults) ELSE <<>>
          /\ search_results' = search_web_text(resp)
    /\ n_search' = n_search + 1
    /\ pc' = "extract"
    /\ UNCHANGED <<rows, template, idx, total_rows, entity, search_query,
                   progress_log, completion, extracted_info, results, clock,
                   n_completion, summary_data, st_error>>

\* line 112 with extract_info_with_llm, lines 42-84; the locals of the finished
\* search_web call (response, hits) are gone and only its return value remains
ExtractInfo ==
    /\ pc = "extract"
    /\ \E c \in Completions :
          /\ completion' = c
          /\ extracted_info' = extract_info_with_llm(c)
    /\ n_completion' = n_completion + 1
    /\ response' = NoResponse
    /\ hits' = <<>>
    /\ pc' = "store"
    /\ UNCHANGED <<rows, template, idx, total_rows, entity, search_query,
                   progress_log, search_results, results, clock,
                   n_search, summary_data, st_error>>

\* variant: a fault of the row is swallowed and nothing is recorded for it
StoreResult_drop_failed ==
    /\ pc = "store"
    /\ \/ results' = Append(results,
                        SuccessRecord(entity, search_query, extracted_info, clock))
       \/ \E e \in StoreFaults : results' = results
    /\ pc' = "sleep"
    /\ UNCHANGED <<rows, template, idx, total_rows, entity, search_query,
                   progress_log, response, hits, search_results, completion,
                   extracted_info, clock, n_search, n_completion, summary_data,
                   st_error>>

\* lines 115-127
StoreResult ==
    /\ pc = "store"
    /\ \/ results' = Append(results,
                        SuccessRecord(entity, search_query, extracted_info, clock))
       \/ \E e \in StoreFaults :
             results' = Append(results, ErrorRecord(entity, e.msg, clock))
    /\ pc' = "sleep"
    /\ UNCHANGED <<rows, template, idx, total_rows, entity, search_query,
                   progress_log, response, hits, search_results, completion,
                   extracted_info, clock, n_search, n_completion, summary_data,
                   st_error>>

\* variant: the delay sits inside the try block and is skipped for a failed row
Throttle_only_on_success ==
    /\ pc = "sleep"
    /\ clock' = IF "error" \in DOMAIN Last(results) THEN clock ELSE clock + SleepSeconds
    /\ idx' = idx + 1
    /\ search_results' = ""
    /\ completion' = NoCompletion
    /\ extracted_info' = PyNone
    /\ pc' = "for"
    /\ UNCHANGED <<rows, template, total_rows, entity, search_query, progress_log,
                   response, hits, results, n_search, n_completion, summary_data,
                   st_error>>

\* line 130, then back to the head of the loop; the values of this iteration
\* (search_results, extracted_info, the completion) are never read again
Throttle ==
    /\ pc = "sleep"
    /\ clock' = clock + SleepSeconds
    /\ idx' = idx + 1
    /\ search_results' = ""
    /\ completion' = NoCompletion
    /\ extracted_info' = PyNone
    /\ pc' = "for"
    /\ UNCHANGED <<rows, template, total_rows, entity, search_query, progress_log,
                   response, hits, results, n_search, n_completion, summary_data,
                   st_error>>

\* lines 98 (rows exhausted) and 132-134
ReturnResults ==
    /\ pc = "for"
    /\ idx = Len(rows)
    /\ pc' = "display"
    /\ UNCHANGED <<rows, template, idx, total_rows, entity, search_query,
                   progress_log, response, hits, search_results, completion,
                   extracted_info, results, clock, n_search, n_completion,
                   summary_data, st_error>>

\* main line 210 with display_results, lines 136-164
DisplayResults ==
    /\ pc = "display"
    /\ IF summary_raises(results)
       THEN /\ summary_data' = <<>>
            /\ st_error' = "An error occurred: 'list' object has no attribute 'get'"
            /\ pc' = "error"
       ELSE /\ summary_data' = summary_rows(results)
            /\ st_error' = st_error
            /\ pc' = "export"
    /\ UNCHANGED <<rows, template, idx, total_rows, entity, search_query,
                   progress_log, response, hits, search_results, completion,
                   extracted_info, results, clock, n_search, n_completion>>

\* main lines 212-228: the two download buttons
Export ==
    /\ pc = "export"
    /\ pc' = "done"
    /\ UNCHANGED <<rows, template, idx, total_rows, entity, search_query,
                   progress_log, response, hits, search_results, completion,
                   extracted_info, results, clock, n_search, n_completion,
                   summary_data, st_error>>

Next ==
    \/ StartAnalysis
    \/ RenderQuery
    \/ UpdateProgress
    \/ SearchWeb
    \/ ExtractInfo
    \/ StoreResult
    \/ Throttle
    \/ ReturnResults
    \/ DisplayResults
    \/ Export

Spec == Init /\ [][Next]_vars


(* ============================== claims ================================ *)
FiveKeys == {"extracted_info", "key_points", "source_quality", "confidence",
             "additional_notes"}

\* the sentinel of lines 77-84, whatever its message
IsSentinel(a) ==
    /\ a.py = "dict"
    /\ DOMAIN a.v = FiveKeys \cup {"error"}
    /\ a.v.error.py = "str"
    /\ a.v.extracted_info = PyNone
    /\ a.v.key_points = PyList(<<>>)
    /\ a.v.source_quality = PyStr("error")
    /\ a.v.confidence = PyStr("none")

\* a record with the five expected fields and no error
IsPopulated(a) ==
    /\ a.py = "dict"
    /\ DOMAIN a.v = FiveKeys

CompletionFailed(c) ==
    \/ c.status = "raised"
    \/ c.status = "ok" /\ json_loads(c.content).exc # ""

SearchFailed == search_results \in {"Search error: " \o e : e \in SearchErrors}

\* the messages str.format can fail with on the templates above
RenderErrors == {"'name'", "Single '{' encountered in format string",
                 "Unknown format code 'f' for object of type 'str'"}

RenderFailed ==
    /\ pc = "error"
    /\ st_error \in {"An error occurred: " \o e : e \in RenderErrors}

\* process_data has returned its list
Returned ==
    \/ pc \in {"display", "export", "done"}
    \/ pc = "error" /\ ~RenderFailed

HasEntityPlaceholder(tpl) ==
    \E i \in 1..Len(tpl) : tpl[i].kind = "field" /\ tpl[i].name = "entity"

\* C1: whenever process_data returns, its list has exactly one record per input
\* row and the i-th record's entity is the i-th row's entity, whatever search
\* failures, completion failures and store faults occurred on the way.
C1_OneResultPerRow ==
    Returned =>
        /\ Len(results) = Len(rows)
        /\ \A i \in 1..Len(rows) : results[i].entity = rows[i]

C1_Witness ==
    /\ pc = "display"
    /\ Len(rows) = 2
    /\ rows[1] # rows[2]
    /\ "error" \in DOMAIN results[1]
    /\ "analysis" \in DOMAIN results[2]
    /\ IsSentinel(results[2].analysis)

\* C2 (as claimed): when the web search of a row fails, the record stored for
\* that row carries an error field and has no analysis key.
C2_SearchFailureIsRowError ==
    (pc = "sleep" /\ SearchFailed) =>
        /\ "error" \in DOMAIN Last(results)
        /\ "analysis" \notin DOMAIN Last(results)

\* C3: when the completion step fails (the call raises, or its text is not
\* JSON), extract_info_with_llm returns the sentinel; the completion endpoint
\* is called once per row (no retry); and the record stored for the row, when
\* the store itself does not fault, has that sentinel as its analysis, after
\* which the loop goes on to the delay and the next row.
C3_CompletionFailureIsSentinel ==
    /\ (pc \in {"store", "sleep"} /\ CompletionFailed(completion)) =>
           IsSentinel(extracted_info)
    /\ pc \in {"store", "sleep"} => n_completion = idx + 1
    /\ (pc = "sleep" /\ CompletionFailed(completion)
          /\ "analysis" \in DOMAIN Last(results)) =>
           /\ Last(results).analysis = extracted_info
           /\ IsSentinel(Last(results).analysis)

C3_Witness ==
    /\ pc = "search"
    /\ idx = 1
    /\ "analysis" \in DOMAIN results[1]
    /\ IsSentinel(results[1].analysis)

\* C4 (as claimed): "News about {entity}" with entity "Acme" renders exactly
\* "News about Acme", and a template without the {entity} placeholder never
\* yields a query (rendering fails instead).
C4_RenderOrTemplateError ==
    /\ (pc = "progress" /\ template = TplNews /\ entity = PyStr("Acme")) =>
           search_query = "News about Acme"
    /\ pc \in {"progress", "search", "extract", "store", "sleep"} =>
           HasEntityPlaceholder(template)

\* C5 (as claimed): a run that ends with a rendering failure has searched,
\* completed and recorded nothing before the failure.
C5_NoPartialProcessing ==
    RenderFailed => (results = <<>> /\ n_search = 0 /\ n_completion = 0)

\* C6 (as claimed): the summary table has one row per record, in order, with
\* "N/A" in a column whose field, or whose whole analysis, is absent.
C6_TableRowPerResult ==
    pc \in {"export", "done"} =>
        /\ Len(summary_data) = Len(results)
        /\ \A i \in 1..Len(results) :
              /\ summary_data[i].Entity = results[i].entity
              /\ "analysis" \notin DOMAIN results[i] =>
                    /\ summary_data[i].MainFindings = PyStr("N/A")
                    /\ summary_data[i].Confidence = PyStr("N/A")
                    /\ summary_data[i].SourceQuality = PyStr("N/A")

CompleteContainers(cs) ==
    SelectSeq(cs, LAMBDA c : c.title # <<>> /\ c.snippet # <<>>)

\* C7 (as claimed): the hits are the first NumResults complete containers in
\* page order; an incomplete container does not count toward the limit.
C7_FirstLimitCompleteContainers ==
    (pc = "extract" /\ response.status = "ok") =>
        LET complete == CompleteContainers(response.containers)
            n == Min(NumResults, Len(complete))
        IN /\ Len(hits) = n
           /\ \A i \in 1..n : hits[i] = format_hit(complete[i])

\* C8 (as claimed): what extract_info_with_llm returns is either a record with
\* the five fields and no error, or the sentinel.
C8_PopulatedOrSentinel ==
    pc = "store" => (IsPopulated(extracted_info) \/ IsSentinel(extracted_info))

\* C9 (as claimed): a progress report is made after its row is recorded, so the
\* reported count equals the number of records at that moment and never
\* exceeds it.
C9_ReportedAfterRow ==
    /\ pc = "search" => Last(progress_log).done = Len(results)
    /\ progress_log # <<>> => Last(progress_log).done <= Len(results)

\* C9 (amended): progress is reported once per row, before the row is searched:
\* the k-th report is (k, total) and is made when k-1 records exist, so while a
\* row is being processed the reported count is one more than the rows recorded.
C9_ReportedBeforeRow ==
    /\ \A k \in 1..Len(progress_log) :
          progress_log[k] = [done |-> k, total |-> Len(rows)]
    /\ Len(progress_log) =
          IF pc \in {"search", "extract", "store"}
          THEN Len(results) + 1 ELSE Len(results)

C9_Witness ==
    /\ pc = "search"
    /\ Len(progress_log) = 2
    /\ Len(results) = 1

\* C10: the delay runs exactly once after every recorded row, failed or not,
\* and rows go one at a time: when the calls of a row are issued, every earlier
\* row has its record appended and its delay done.
C10_ThrottleBetweenRows ==
    /\ clock = SleepSeconds * idx
    /\ Len(results) = IF pc = "sleep" THEN idx + 1 ELSE idx
    /\ n_search = IF pc \in {"extract", "store", "sleep"} THEN idx + 1 ELSE idx
    /\ n_completion = IF pc \in {"store", "sleep"} THEN idx + 1 ELSE idx

C10_Witness ==
    /\ pc = "extract"
    /\ idx = 1
    /\ "error" \in DOMAIN results[1]
    /\ clock = SleepSeconds


====
